---- MODULE Spec2Model ----
(***************************************************************************)
(* Resource-management dashboard: the cursor-paginated infinite resource   *)
(* list (server list endpoint, useInfiniteResources, the scroll trigger)   *)
(* and the optimistic mutations over the resource query cache              *)
(* (useUpdateResourceStatus, useResourceForm).                             *)
(*                                                                         *)
(* The query cache holds one entry per query key.  Keys under              *)
(* ['resources'] are the filtered lists ['resources','list',filters] and   *)
(* the infinite page sequence ['resources','infinite',pageSize].           *)
(* JavaScript runs one task at a time: an action is one task together      *)
(* with the microtasks and the synchronous re-render it causes.            *)
(***************************************************************************)
EXTENDS Integers, Sequences, FiniteSets, TLC

\* ---------------------------------------------------------------- bounds
MaxN == 4
MaxL == 2
MaxAbandoned == 2
MaxMutations == 2
MaxPending == 1
MaxOverlap == 2
ListLen == 1
MaxSubmits == 2
MaxPage == 2
Delay == 2
MaxClock == 5
MaxCalls == 3
MaxHistory == 2
MaxMessages == 4
MaxConnects == 2
MaxExchanges == 2

\* ---------------------------------------------------- program constants
Null == 0

Statuses == {"ACTIVE", "MAINTENANCE"}

\* the status filter of the table: one list cache entry per filter value
Filters == {"ALL", "ACTIVE"}

Mutations == 1..MaxMutations

VARIABLES
    dbCount,       \* rows in the Resource table, ids 1..dbCount
    pageSize,      \* the pageSize option of useInfiniteResources
    inf,           \* cache entry ['resources','infinite',pageSize]
    allResources,  \* the memoised flattened list returned by the hook
    intersecting,  \* whether the sentinel is within the root margin
    ioQueued,      \* an IntersectionObserver notification is queued
    abandoned,     \* page requests still travelling whose fetch was cancelled
    observers,     \* observerRef.current and the observers it no longer holds
    lists,         \* cache entries ['resources','list',filters], by filter
    observed,      \* the filter whose list the table observes, or "none"
    muts,          \* the mutations: position, variables and onMutate context
    now,           \* logical clock: ticks when a mutation is started
    form,          \* useResourceForm: values, errors, submissions made
    store,         \* useAppStore: preferences, filters, sort, pagination
    storeCalls,    \* history: the store action called last, the page before it
    debounced,     \* a debounce(fn, Delay) closure, the timers, the clock
    socket,        \* one useSocketData instance and the timers it has set
    db,            \* the User and AccessRequest tables behind the API
    http,          \* history: the exchanges made and the latest of them
    before         \* history: the list entries when mutation 1 was started

pagingVars == <<dbCount, pageSize, inf, allResources, intersecting, ioQueued,
                abandoned, observers>>

cacheVars == <<lists, observed, muts, now>>

\* the state of the hooks and stores outside the resource query cache
otherVars == <<form, store, storeCalls, debounced, socket, db, http,
               before>>

\* what the form hook leaves alone, and what the store leaves alone
exceptForm == <<store, storeCalls, debounced, socket, db, http, before>>
exceptStore == <<form, debounced, socket, db, http, before>>
exceptDebounce == <<form, store, storeCalls, socket, db, http, before>>
exceptSocket == <<form, store, storeCalls, debounced, db, http, before>>
exceptApi == <<form, store, storeCalls, debounced, socket, before>>
exceptBefore == <<form, store, storeCalls, debounced, socket, db, http>>

vars == <<dbCount, pageSize, inf, allResources, intersecting, ioQueued,
          abandoned, observers, lists, observed, muts, now, form, store,
          storeCalls, debounced, socket, db, http, before>>

\* ------------------------------------------------------------ data shapes
Resource(i, s, t) == [id |-> i, status |-> s, updatedAt |-> t]

\* rows of the Resource table in ascending id order
DbRows(n) == [i \in 1..n |-> Resource(i, "ACTIVE", 0)]

NoRevert == [status |-> "pending", fetchMeta |-> "none"]

NoFetch == [kind |-> "none", param |-> Null, revert |-> NoRevert]

\* a fetch: its kind, its page parameter and the state its entry reverts
\* to when it is cancelled
StartFetch(k, p, rv) == [kind |-> k, param |-> p, revert |-> rv]

RevertOf(e) == [status |-> e.status, fetchMeta |-> e.fetchMeta]

Min(a, b) == IF a < b THEN a ELSE b

\* ------------------------------------------------- server: list endpoint
\* prisma.resource.findMany({take, orderBy:{id:'asc'}, cursor:{id}, skip:1})
FindMany(rows, cursor, take) ==
    LET idx   == {i \in 1..Len(rows) : rows[i].id = cursor}
        first == IF cursor = Null THEN 1
                 ELSE IF idx = {} THEN Len(rows) + 1
                 ELSE (CHOOSE i \in idx : TRUE) + 1
        last  == Min(Len(rows), first + take - 1)
    IN  SubSeq(rows, first, last)

\* the endpoint with hasMore derived from the fullness of the page
ListHandler_Bad(rows, cursor, limit) ==
    LET take      == limit + 1
        resources == FindMany(rows, cursor, take)
        full      == Len(resources) = take
        data      == IF full THEN SubSeq(resources, 1, Len(resources) - 1)
                     ELSE resources
        nextCursor == IF full THEN resources[Len(resources)].id ELSE Null
    IN  [data |-> data, nextCursor |-> nextCursor,
         totalCount |-> Len(rows), hasMore |-> Len(data) = limit]

\* GET /api/resources/list: the response body for (cursor, limit)
ListHandler(rows, cursor, limit) ==
    LET take      == limit + 1
        resources == FindMany(rows, cursor, take)
        full      == Len(resources) = take
        data      == IF full THEN SubSeq(resources, 1, Len(resources) - 1)
                     ELSE resources
        nextItem  == resources[Len(resources)]
        nextCursor == IF full THEN nextItem.id ELSE Null
    IN  [data |-> data, nextCursor |-> nextCursor,
         totalCount |-> Len(rows), hasMore |-> nextCursor # Null]

\* ------------------------------------------------ client: infinite query
\* the next cursor taken from the last item of the page
GetNextPageParam_Bad(lastPage) ==
    IF Len(lastPage.data) = 0 THEN Null
    ELSE lastPage.data[Len(lastPage.data)].id

\* getNextPageParam: lastPage.nextCursor ?? undefined
GetNextPageParam(lastPage) == lastPage.nextCursor

Pages(e) == e.pages

\* hasNextPage of the query result
HasNextPage(e) ==
    /\ e.defined
    /\ Len(e.pages) > 0
    /\ GetNextPageParam(e.pages[Len(e.pages)]) # Null

IsFetching(e) == e.fetch.kind # "none"

IsFetchingNextPage(e) == e.fetch.kind = "next"

\* the exposed list taken from the last loaded page only
FlatMap_Bad(pages) ==
    IF Len(pages) = 0 THEN <<>> ELSE pages[Len(pages)].data

\* query.data?.pages.flatMap((page) => page.data) ?? []
RECURSIVE FlatMap(_)
FlatMap(pages) ==
    IF Len(pages) = 0 THEN <<>>
    ELSE pages[1].data \o FlatMap(Tail(pages))

\* a refetch of an infinite query walks the cursors again, one request per
\* page already held, and stops early when a page reports no next cursor
RECURSIVE RefetchPages(_, _, _, _)
RefetchPages(rows, limit, cursor, remaining) ==
    IF remaining = 0 THEN <<>>
    ELSE LET page == ListHandler(rows, cursor, limit)
         IN  IF page.nextCursor = Null THEN <<page>>
             ELSE <<page>> \o RefetchPages(rows, limit, page.nextCursor,
                                           remaining - 1)

\* the pages a fetch of the given kind produces when it succeeds
FetchedPages(e, rows, limit) ==
    CASE e.fetch.kind = "initial" -> <<ListHandler(rows, Null, limit)>>
      [] e.fetch.kind = "next"    ->
            Append(e.pages, ListHandler(rows, e.fetch.param, limit))
      [] e.fetch.kind = "refetch" ->
            RefetchPages(rows, limit, Null, Len(e.pages))
      [] OTHER -> e.pages

\* the query reducer on a successful fetch
SucceedFetch(e, pages) ==
    [e EXCEPT !.defined = TRUE, !.pages = pages, !.status = "success",
              !.invalidated = FALSE, !.fetch = NoFetch]

\* a failed fetch that resets the query
FailFetch_Bad(e) ==
    [e EXCEPT !.status = "error", !.fetch = NoFetch, !.defined = FALSE,
              !.pages = <<>>]

\* the query reducer on a failed fetch: the error state keeps the data
FailFetch(e) == [e EXCEPT !.status = "error", !.fetch = NoFetch]

\* isFetchNextPageError of the query result
IsFetchNextPageError(e) == e.status = "error" /\ e.fetchMeta = "forward"

\* the ref callback is re-created when hasNextPage or isFetchingNextPage
\* change; the new observer reports the sentinel's state once on observe()
DepsChanged(old, new) ==
    \/ HasNextPage(old) # HasNextPage(new)
    \/ IsFetchingNextPage(old) # IsFetchingNextPage(new)

Reattach(old, new, queued) ==
    IF new.mounted /\ DepsChanged(old, new) THEN TRUE ELSE queued

\* observer.disconnect() on what observerRef.current holds
Disconnect_Bad(current) == current

Disconnect(current) ==
    IF current = "connected" THEN "disconnected" ELSE current

\* sentinelRef(node): the previous observer is disconnected; for a node a
\* new observer is created, stored in observerRef.current and connected
SentinelRef(o, hasNode) ==
    LET previous == Disconnect(o.current)
    IN  IF ~hasNode THEN [o EXCEPT !.current = previous]
        ELSE [current |-> "connected",
              stray |-> o.stray + (IF previous = "connected" THEN 1 ELSE 0)]

\* the cleanup of the unmount effect
Cleanup(o) == [o EXCEPT !.current = Disconnect(o.current)]

\* React calls the old ref callback with null and the new one with the node
ReattachRef(o, old, new) ==
    IF new.mounted /\ DepsChanged(old, new)
    THEN SentinelRef(SentinelRef(o, FALSE), TRUE)
    ELSE o

\* observers of the trigger that are connected
Connected(o) == (IF o.current = "connected" THEN 1 ELSE 0) + o.stray

\* a (re)fetch of the whole entry: the first page when it holds no data
Refetch(e) ==
    [e EXCEPT !.fetch = StartFetch(IF e.defined THEN "refetch" ELSE "initial",
                                   Null, RevertOf(e)),
              !.fetchMeta = "none",
              !.status = IF e.defined THEN e.status ELSE "pending"]

\* the guard without the test of isFetchingNextPage
TriggerFires_Bad(e, isIntersecting) == isIntersecting /\ HasNextPage(e)

\* the observer callback's guard
TriggerFires(e, isIntersecting) ==
    isIntersecting /\ HasNextPage(e) /\ ~IsFetchingNextPage(e)

TypeOK ==
    /\ dbCount \in 0..(MaxN + 1)
    /\ pageSize \in 1..(MaxL + 1)
    /\ inf.defined \in BOOLEAN
    /\ inf.status \in {"pending", "success", "error"}
    /\ inf.fetch.kind \in {"none", "initial", "next", "refetch"}
    /\ intersecting \in BOOLEAN
    /\ ioQueued \in BOOLEAN
    /\ abandoned \in 0..(MaxAbandoned + 1)
    /\ observers.current \in {"null", "connected", "disconnected"}
    /\ observers.stray \in 0..1

\* ------------------------------------------------- client: list queries
ListInit ==
    [exists |-> FALSE, defined |-> FALSE, items |-> <<>>,
     invalidated |-> FALSE, fetch |-> NoFetch]

\* generateResources(count): ids by index, every status drawn at random
GenLists ==
    {[i \in 1..ListLen |-> Resource(i, st[i], 0)] :
        st \in [1..ListLen -> Statuses]}

Keep(f, r) == f = "ALL" \/ r.status = f

\* fetchResources(filters): the generated rows that pass the status filter
FetchResources(f, gen) == SelectSeq(gen, LAMBDA r : Keep(f, r))

\* query.fetch() on a list entry; cancelRefetch replaces a fetch that is
\* already attached when the entry holds data, otherwise that fetch goes on
FetchList(e, cancelRefetch) ==
    IF IsFetching(e) /\ ~(e.defined /\ cancelRefetch) THEN e
    ELSE [e EXCEPT !.fetch = StartFetch("fetch", Null, NoRevert)]

\* ------------------------------------------------------------- mutations
EmptyContext == [f \in Filters |-> [present |-> FALSE, defined |-> FALSE,
                                    items |-> <<>>]]

MutInit ==
    [pc |-> "idle", kind |-> "none", resourceId |-> 0, status |-> "ACTIVE",
     fails |-> FALSE, at |-> 0, context |-> EmptyContext, cancelled |-> {}]

\* `temp-${Date.now()}`
TempId(t) == 100 + t

\* keys under ['resources'] that have a fetch attached
FetchingKeys(ls, e) ==
    {f \in Filters : IsFetching(ls[f])}
        \cup (IF IsFetching(e) THEN {"infinite"} ELSE {})

\* onMutate without the cancellation
CancelLists_Bad(ls) == ls

\* queryClient.cancelQueries({ queryKey: resourceKeys.all }): every attached
\* fetch is cancelled and its entry reverts to the state before the fetch
CancelLists(ls) == [f \in Filters |-> [ls[f] EXCEPT !.fetch = NoFetch]]

CancelInfinite(e) ==
    IF IsFetching(e) THEN [e EXCEPT !.fetch = NoFetch,
                                    !.status = e.fetch.revert.status,
                                    !.fetchMeta = e.fetch.revert.fetchMeta]
    ELSE e

\* queryClient.getQueriesData({ queryKey: resourceKeys.lists() })
GetQueriesData(ls) ==
    [f \in Filters |-> [present |-> ls[f].exists, defined |-> ls[f].defined,
                        items |-> ls[f].items]]

\* query.setData(): a manual success write clears isInvalidated
SetData(e, items) ==
    [e EXCEPT !.exists = TRUE, !.defined = TRUE, !.items = items,
              !.invalidated = FALSE]

\* the updater of useUpdateResourceStatus.onMutate
PatchStatus(items, rid, st, t) ==
    [i \in 1..Len(items) |->
        IF items[i].id = rid
        THEN [items[i] EXCEPT !.status = st, !.updatedAt = t]
        ELSE items[i]]

\* the updater of the create form's onMutate
PatchCreate(items, t) == <<Resource(TempId(t), "ACTIVE", t)>> \o items

Updater(mu, items, t) ==
    IF mu.kind = "status" THEN PatchStatus(items, mu.resourceId, mu.status, t)
    ELSE PatchCreate(items, t)

\* queryClient.setQueriesData({ queryKey: resourceKeys.lists() }, updater):
\* an updater result of undefined leaves the entry as it is
SetQueriesData(ls, mu, t) ==
    [f \in Filters |->
        IF ls[f].exists /\ ls[f].defined
        THEN SetData(ls[f], Updater(mu, ls[f].items, t))
        ELSE ls[f]]

\* onError: previous.forEach(([key, data]) => setQueryData(key, data));
\* setQueryData with data === undefined returns without writing
Rollback(ls, ctx) ==
    [f \in Filters |->
        IF ctx[f].present /\ ctx[f].defined
        THEN SetData(ls[f], ctx[f].items)
        ELSE ls[f]]

\* invalidation of the observed list only
InvalidateLists_Bad(ls, obs) ==
    [f \in Filters |->
        IF ~ls[f].exists \/ obs # f THEN ls[f]
        ELSE FetchList([ls[f] EXCEPT !.invalidated = TRUE], TRUE)]

\* queryClient.invalidateQueries({ queryKey: resourceKeys.all }): every
\* entry is marked invalidated and the observed ones are refetched
InvalidateLists(ls, obs) ==
    [f \in Filters |->
        IF ~ls[f].exists THEN ls[f]
        ELSE LET e == [ls[f] EXCEPT !.invalidated = TRUE]
             IN  IF obs = f THEN FetchList(e, TRUE) ELSE e]

InvalidateInfinite(e) ==
    IF ~e.mounted THEN e
    ELSE LET e1 == [e EXCEPT !.invalidated = TRUE]
         IN  IF IsFetching(e1) /\ ~e1.defined THEN e1 ELSE Refetch(e1)

\* the create form invalidates in onSuccess and again in onSettled; the
\* status hook invalidates in onSettled only
Invalidations(mu) == IF mu.kind = "create" /\ ~mu.fails THEN 2 ELSE 1

\* the invalidations of one settlement on the infinite entry: the second
\* one cancels the refetch the first one started and starts another
SettleInfinite(e, mu) ==
    IF Invalidations(mu) = 2 THEN InvalidateInfinite(InvalidateInfinite(e))
    ELSE InvalidateInfinite(e)

\* fetches of the infinite entry that one invalidation cancels
Cancels(e) == IF e.mounted /\ IsFetching(e) /\ e.defined THEN 1 ELSE 0

\* page requests left travelling by the invalidations of one settlement
SettleAbandons(e, mu) ==
    Cancels(e) + (IF Invalidations(mu) = 2 THEN Cancels(InvalidateInfinite(e))
                  ELSE 0)

\* invalidation in onSuccess only
SettleLists_Bad(ls, mu, obs) ==
    IF mu.fails THEN Rollback(ls, mu.context) ELSE InvalidateLists(ls, obs)

\* onError (failure only), then the invalidation of onSuccess / onSettled
\* of either mutation hook (on the lists a second invalidation restarts the
\* refetch of the observed entry and changes nothing else)
SettleLists(ls, mu, obs) ==
    InvalidateLists(IF mu.fails THEN Rollback(ls, mu.context) ELSE ls, obs)

\* ------------------------------------------------- create-resource form
\* createResourceSchema: the bounds of name and costPerHour
NameMinLen == 3
NameMaxLen == 128
CostMax == 1000

\* the fields of the form that the model varies; type, provider,
\* department, tags and description keep their (valid) default values
Fields == {"name", "region", "costPerHour"}

\* a name by its length and its characters: "valid" matches the pattern,
\* "invalid" does not, "error" matches it and contains 'error'
Names ==
    {[len |-> l, chars |-> c] :
        l \in {0, NameMinLen - 1, NameMinLen, NameMaxLen + 1},
        c \in {"valid", "invalid"}}
      \cup {[len |-> NameMinLen + 2, chars |-> "error"]}

Regions == {"us-east-1", "mars-1"}

\* a cost as entered: a number, or NaN from an input that is no number
Costs ==
    {[isNumber |-> TRUE, n |-> n] : n \in {-1, 0, CostMax + 1}}
      \cup {[isNumber |-> FALSE, n |-> 0]}

NoError == ""

NoErrors == [f \in Fields |-> NoError]

\* DEFAULT_VALUES
DefaultValues ==
    [name |-> [len |-> 0, chars |-> "valid"], region |-> "us-east-1",
     costPerHour |-> [isNumber |-> TRUE, n |-> 0]]

FormInit == [values |-> DefaultValues, errors |-> NoErrors, submits |-> 0]

\* /^[a-zA-Z0-9][a-zA-Z0-9_-]*$/
MatchesPattern(name) == name.len >= 1 /\ name.chars # "invalid"

Issue(field, message) == [path |-> field, message |-> message]

\* the issues of the name: every check of the string runs
NameIssues(name) ==
    (IF name.len < NameMinLen
     THEN <<Issue("name", "Resource name must be at least 3 characters")>>
     ELSE <<>>)
    \o (IF name.len > NameMaxLen
        THEN <<Issue("name", "Resource name cannot exceed 128 characters")>>
        ELSE <<>>)
    \o (IF ~MatchesPattern(name)
        THEN <<Issue("name", "Name must start with alphanumeric and contain only letters, numbers, hyphens, and underscores")>>
        ELSE <<>>)

RegionIssues(region) ==
    IF region = "us-east-1" THEN <<>>
    ELSE <<Issue("region", "Please select a valid region")>>

\* the issues of the cost: the range checks run on a number only
CostIssues(cost) ==
    IF ~cost.isNumber
    THEN <<Issue("costPerHour", "Cost must be a number")>>
    ELSE (IF cost.n < 0
          THEN <<Issue("costPerHour", "Cost cannot be negative")>>
          ELSE <<>>)
         \o (IF cost.n > CostMax
             THEN <<Issue("costPerHour",
                          "Cost per hour cannot exceed $1,000")>>
             ELSE <<>>)

\* createResourceSchema.parse(values): the issues in the order of the shape
SchemaIssues(values) ==
    NameIssues(values.name) \o RegionIssues(values.region)
        \o CostIssues(values.costPerHour)

\* every issue overwrites the message of its field
SetFirst_Bad(fieldErrors, issue) ==
    [fieldErrors EXCEPT ![issue.path] = issue.message]

\* if (field && !fieldErrors[field]) fieldErrors[field] = issue.message
SetFirst(fieldErrors, issue) ==
    IF fieldErrors[issue.path] = NoError
    THEN [fieldErrors EXCEPT ![issue.path] = issue.message]
    ELSE fieldErrors

\* for (const issue of err.issues) ...
RECURSIVE FieldErrorsOf(_, _)
FieldErrorsOf(issues, fieldErrors) ==
    IF issues = <<>> THEN fieldErrors
    ELSE FieldErrorsOf(Tail(issues), SetFirst(fieldErrors, Head(issues)))

\* validate(): the result and the errors it sets
Validate(values) ==
    LET issues == SchemaIssues(values)
    IN  IF issues = <<>> THEN [ok |-> TRUE, errors |-> NoErrors]
        ELSE [ok |-> FALSE, errors |-> FieldErrorsOf(issues, NoErrors)]

\* ------------------------------------------------------------------ Init
\* ---------------------------------------------------------- the app store
DefaultPageSize == 50

Searches == {"", "web"}
StatusFilters == {"ALL", "ACTIVE"}
Departments == {"ALL", "ENGINEERING"}
Providers == {"ALL", "AWS"}
\* a date of the range filter: null or an ISO date string
Dates == {"null", "2024-01-01"}
Themes == {"light", "dark"}
Locales == {"en", "id"}
Sorts == [key : {"name"}, direction : {"asc", "desc"}]
PageNumbers == 1..MaxPage
PageSizes == {DefaultPageSize, 2 * DefaultPageSize}

defaultFilters ==
    [search |-> "", status |-> "ALL", department |-> "ALL",
     provider |-> "ALL", dateRange |-> [from |-> "null", to |-> "null"]]

defaultPreferences ==
    [theme |-> "dark", locale |-> "en", sidebarCollapsed |-> FALSE,
     compactMode |-> FALSE]

StoreInit ==
    [preferences |-> defaultPreferences,
     filters |-> defaultFilters,
     sort |-> [key |-> "name", direction |-> "asc"],
     pagination |-> [page |-> 1, pageSize |-> DefaultPageSize]]

\* state.pagination.page = 1, the second statement of every filter action
\* and of setPageSize
ResetPage_Bad(state) == state

ResetPage(state) == [state EXCEPT !.pagination.page = 1]

\* ---------------------------------------------------------------- debounce
\* the arguments of a call of the debounced function
Args == {"a", "b"}

\* timeoutId is undefined until the first call; timers are the timeouts
\* the platform holds; the fields from calls on are history: the calls
\* made, the time and arguments of the latest, the length of the burst it
\* belongs to (calls less than Delay apart), the invocations of fn that
\* burst has had, and the arguments of the latest invocation
DebounceInit ==
    [clock |-> 0, timeoutId |-> 0, timers |-> {},
     calls |-> 0, lastCallAt |-> 0, lastArgs |-> "none", burstLen |-> 0,
     invoked |-> 0, invokedArgs |-> "none"]

ClearTimeout_Bad(timers, id) == timers

\* clearTimeout(id): no timeout has the id undefined
ClearTimeout(timers, id) == {t \in timers : t.id # id}

\* setTimeout(() => fn(...args), delay) called at the time clock
SetTimeout(timers, id, clock, args) ==
    timers \cup {[id |-> id, due |-> clock + Delay, args |-> args]}

\* the call continues the burst of the call before it
InBurst(d) == d.calls > 0 /\ d.clock - d.lastCallAt < Delay

\* ------------------------------------------------------------ useSocketData
MessageTypes == {"SYSTEM_HEALTH", "MARKET_TICKER", "ALERT"}

\* the n-th message the hook instance generates
Message(n, type) == [seq |-> n, type |-> type]

\* lastMessage before the first message: null
NoMessage == Message(0, "none")

\* the hook before it mounts: the useState and useRef initial values
\* (Null and NoMessage for null), no timeout and no interval set.  maxHistory is the
\* option the instance is rendered with, the same on every render.
\* generated, connects and quiet are history: the messages generated so
\* far, the calls of connect() made, and whether disconnect() has been
\* called with no call of connect() since.
SocketInit ==
    [mounted |-> FALSE, unmounted |-> FALSE,
     status |-> "disconnected", lastMessage |-> NoMessage,
     healthData |-> Null,
     messageHistory |-> <<>>,
     intervalRef |-> Null, isConnectedRef |-> FALSE,
     timeouts |-> {}, intervals |-> {},
     generated |-> 0, connects |-> 0, quiet |-> FALSE]

\* updated.slice(0, maxHistory)
Slice_Bad(updated, maxHistory) == updated

Slice(updated, maxHistory) == SubSeq(updated, 1, Min(Len(updated), maxHistory))

\* a state setter: React drops the update of a component that has unmounted
SetState(s, next) == IF s.mounted THEN next ELSE s

\* clearInterval(intervalRef.current) under if (intervalRef.current)
ClearInterval(s) ==
    IF s.intervalRef # Null THEN s.intervals \ {s.intervalRef}
    ELSE s.intervals

\* connect(): the function it returns, which would clear the timeout, is
\* dropped by every caller
ConnectOf(s) ==
    IF s.isConnectedRef THEN [s EXCEPT !.connects = @ + 1, !.quiet = FALSE]
    ELSE [SetState(s, [s EXCEPT !.status = "connecting"])
            EXCEPT !.timeouts = @ \cup {s.connects + 1},
                   !.connects = @ + 1,
                   !.quiet = FALSE]

\* ------------------------------------------------------------ the API
\* the Clerk identities that may call, and the roles of the User table
ClerkIds == {"c1", "c2", "c3", "c4"}
Roles == {"USER", "ADMIN", "SUPERADMIN"}

\* what the Authorization header may hold: nothing that starts with
\* 'Bearer ', a token verifyToken rejects, a token it accepts without a
\* sub, or a token it accepts for an identity
Tokens ==
    {[kind |-> k, sub |-> "-"] : k \in {"none", "invalid", "nosub"}}
        \cup {[kind |-> "valid", sub |-> c] : c \in ClerkIds}

Methods == {"GET", "POST", "PUT"}

\* the paths requested; the [id] segment is the id of the request
Urls ==
    {"/api/access-requests", "/api/admin/access-requests",
     "/api/admin/users", "/api/admin/access-requests/[id]/approve",
     "/api/admin/users/[id]/role"}

AccessResources == {"ROLE_UPGRADE_ADMIN", "UNKNOWN"}

\* the ids of access requests a path may name: the position of a row
RequestIds == {"1", "2"}

\* what every request has: limited says that the rate limiter refuses the
\* caller, dbDown that Prisma throws
Heads ==
    [method : Methods, url : Urls, token : Tokens, limited : BOOLEAN,
     dbDown : BOOLEAN]

\* a request: id is the [id] segment (a user id or an access request id),
\* role and resource are fields of the body
Request(head, id, role, resource) ==
    [method |-> head.method, url |-> head.url, token |-> head.token,
     limited |-> head.limited, dbDown |-> head.dbDown,
     id |-> id, role |-> role, resource |-> resource]

\* a request whose path has no [id] segment and whose body is not read
Plain(head) == Request(head, "-", "-", "-")

AccessRequest(userId, resource, status) ==
    [userId |-> userId, resource |-> resource, status |-> status]

\* the tables as the handlers meet them: a superadmin, an admin, a user
\* with a pending petition, and an identity that has no row yet
DbInit ==
    [users |-> [c \in ClerkIds |->
                   CASE c = "c1" -> "SUPERADMIN"
                     [] c = "c2" -> "ADMIN"
                     [] c = "c3" -> "USER"
                     [] OTHER -> "absent"],
     accessRequests |->
        <<AccessRequest("c3", "ROLE_UPGRADE_ADMIN", "PENDING")>>]

\* no exchange yet
HttpInit ==
    [n |-> 0, handler |-> "none",
     req |-> [method |-> "-", url |-> "-",
              token |-> [kind |-> "none", sub |-> "-"],
              limited |-> FALSE, dbDown |-> FALSE],
     status |-> 0, data |-> "none", body |-> FALSE]

\* what a handler leaves: the tables, the response status, what the
\* response carries, and whether the code after the authorization ran
Outcome(d, status, data, body) ==
    [db |-> d, status |-> status, data |-> data, body |-> body]

\* allowedRoles.length > 0 && !allowedRoles.includes(user.role)
Forbidden_Bad(allowedRoles, role) == FALSE

Forbidden(allowedRoles, role) ==
    allowedRoles # {} /\ role \notin allowedRoles

\* requireAuthRole(allowedRoles)(req, res): user is the caller's row, or
\* "null" with the response already sent
RequireAuthRole(allowedRoles, req, d) ==
    IF req.token.kind \in {"none", "invalid", "nosub"}
    THEN [db |-> d, user |-> "null", status |-> 401]
    ELSE IF req.dbDown
    THEN [db |-> d, user |-> "null", status |-> 500]
    ELSE LET sub == req.token.sub
             synced == IF d.users[sub] = "absent"
                       THEN [d EXCEPT !.users[sub] = "USER"]
                       ELSE d
         IN  IF Forbidden(allowedRoles, synced.users[sub])
             THEN [db |-> synced, user |-> "null", status |-> 403]
             ELSE [db |-> synced, user |-> sub, status |-> 200]

\* the head every handler shares: the rate limit, then the authorization;
\* user is "null" when the response has been sent already
Guarded(allowedRoles, req, d) ==
    IF req.limited THEN [db |-> d, user |-> "null", status |-> 429]
    ELSE RequireAuthRole(allowedRoles, req, d)

\* `if (!user) return`: the response the head has sent
Denied(gate) == Outcome(gate.db, gate.status, "error", FALSE)

\* the position of the access request the [id] segment names, 0 for none
RequestIndex(id, d) ==
    LET i == CASE id = "1" -> 1 [] id = "2" -> 2 [] OTHER -> 0
    IN  IF i <= Len(d.accessRequests) THEN i ELSE 0

\* POST /api/access-requests: the petition is recorded as PENDING
AccessRequestsIndex(req, d) ==
    IF req.method # "POST" THEN Outcome(d, 405, "error", FALSE)
    ELSE LET gate == Guarded(Roles, req, d)
             t == gate.db
             user == gate.user
         IN  IF user = "null" THEN Denied(gate)
             ELSE
                 Outcome([t EXCEPT !.accessRequests =
                             Append(@, AccessRequest(user, req.resource,
                                                     "PENDING"))],
                         200, "request", TRUE)

\* GET /api/admin/access-requests: the pending petitions
AdminAccessRequestsIndex(req, d) ==
    IF req.method # "GET" THEN Outcome(d, 405, "error", FALSE)
    ELSE LET gate == Guarded({"ADMIN", "SUPERADMIN"}, req, d)
             t == gate.db
             user == gate.user
         IN  IF user = "null" THEN Denied(gate)
             ELSE Outcome(t, 200, "requests", TRUE)

\* GET /api/admin/users: every user row
AdminUsersIndex(req, d) ==
    IF req.method # "GET" THEN Outcome(d, 405, "error", FALSE)
    ELSE LET gate == Guarded({"ADMIN", "SUPERADMIN"}, req, d)
             t == gate.db
             user == gate.user
         IN  IF user = "null" THEN Denied(gate)
             ELSE Outcome(t, 200, "users", TRUE)

\* POST /api/admin/access-requests/[id]/approve: the petition becomes
\* APPROVED, and a superadmin approving ROLE_UPGRADE_ADMIN makes its
\* owner an ADMIN
AdminAccessRequestsApprove(req, d) ==
    IF req.method # "POST" THEN Outcome(d, 405, "error", FALSE)
    ELSE LET gate == Guarded({"ADMIN", "SUPERADMIN"}, req, d)
             t == gate.db
             user == gate.user
         IN  IF user = "null" THEN Denied(gate)
             ELSE
                 LET i == RequestIndex(req.id, t)
                 IN  IF i = 0 THEN Outcome(t, 404, "error", TRUE)
                     ELSE LET request == t.accessRequests[i]
                              approved ==
                                [t EXCEPT !.accessRequests[i].status =
                                              "APPROVED"]
                          IN  IF /\ request.resource = "ROLE_UPGRADE_ADMIN"
                                 /\ t.users[user] = "SUPERADMIN"
                              THEN Outcome([approved EXCEPT
                                              !.users[request.userId] =
                                                  "ADMIN"],
                                           200, "request", TRUE)
                              ELSE Outcome(approved, 200, "request", TRUE)

\* PUT /api/admin/users/[id]/role: the role of the body is stored; the
\* update of a row that does not exist throws
AdminUsersRole(req, d) ==
    IF req.method # "PUT" THEN Outcome(d, 405, "error", FALSE)
    ELSE LET gate == Guarded({"SUPERADMIN"}, req, d)
             t == gate.db
             user == gate.user
         IN  IF user = "null" THEN Denied(gate)
             ELSE
                 IF req.id \notin ClerkIds \/ t.users[req.id] = "absent"
                 THEN Outcome(t, 500, "error", TRUE)
                 ELSE Outcome([t EXCEPT !.users[req.id] = req.role],
                              200, "user", TRUE)

\* the compacted index router: the handler a request is passed to
Route(method, url) ==
    CASE method = "GET" /\ url = "/api/access-requests" ->
            "accessRequestsIndex"
      [] method = "GET" /\ url = "/api/admin/access-requests" ->
            "adminAccessRequestsIndex"
      [] method = "GET" /\ url = "/api/admin/users" -> "adminUsersIndex"
      [] method = "POST" /\ url = "/api/admin/access-requests/[id]/approve"
            -> "adminAccessRequestsApprove"
      [] method = "PUT" /\ url = "/api/admin/users/[id]/role" ->
            "adminUsersRole"
      [] OTHER -> "notFound"

InfInit ==
    [mounted |-> FALSE, defined |-> FALSE, pages |-> <<>>,
     status |-> "pending", invalidated |-> FALSE, fetchMeta |-> "none",
     fetch |-> NoFetch]

Init ==
    /\ dbCount \in 0..MaxN
    /\ pageSize \in 1..MaxL
    /\ inf = InfInit
    /\ allResources = <<>>
    /\ intersecting = FALSE
    /\ ioQueued = FALSE
    /\ abandoned = 0
    /\ observers = [current |-> "null", stray |-> 0]
    /\ lists = [f \in Filters |-> ListInit]
    /\ observed = "none"
    /\ muts = [m \in Mutations |-> MutInit]
    /\ now = 0
    /\ form = FormInit
    /\ store = StoreInit
    /\ storeCalls = [op |-> "none", page |-> 1]
    /\ debounced = DebounceInit
    /\ socket = SocketInit
    /\ db = DbInit
    /\ http = HttpInit
    /\ before = EmptyContext

\* no continuation of an awaited promise is pending: tasks (responses,
\* timers, user events) run only when the microtask queue is empty
NoMicrotask == \A m \in Mutations : muts[m].pc # "onMutate"

\* --------------------------------------------------------------- actions
\* the grid mounts: useInfiniteQuery observes the entry and fetches unless
\* a fetch is attached already or the data it holds is fresh; the sentinel
\* is rendered and its ref callback runs
MountInfinite ==
    /\ NoMicrotask
    /\ ~inf.mounted
    /\ \E stale \in BOOLEAN :
          LET e == [inf EXCEPT !.mounted = TRUE]
          IN  inf' = IF IsFetching(e) THEN e
                     ELSE IF ~e.defined \/ e.invalidated \/ stale
                     THEN Refetch(e) ELSE e
    /\ observers' = SentinelRef(observers, TRUE)
    /\ ioQueued' = TRUE
    /\ UNCHANGED <<dbCount, pageSize, allResources, intersecting, abandoned>>
    /\ UNCHANGED cacheVars
    /\ UNCHANGED otherVars

\* the response of the attached page request arrives with a 2xx status
PageResponseOk ==
    /\ NoMicrotask
    /\ IsFetching(inf)
    /\ LET pages == FetchedPages(inf, DbRows(dbCount), pageSize)
           new   == SucceedFetch(inf, pages)
       IN  /\ inf' = new
           /\ allResources' = FlatMap(Pages(new))
           /\ ioQueued' = Reattach(inf, new, ioQueued)
           /\ observers' = ReattachRef(observers, inf, new)
    /\ UNCHANGED <<dbCount, pageSize, intersecting, abandoned>>
    /\ UNCHANGED cacheVars
    /\ UNCHANGED otherVars

\* the attached fetch fails for good (non-2xx or network error, retries
\* used up): the query goes to the error state and keeps its data
PageResponseFail ==
    /\ NoMicrotask
    /\ IsFetching(inf)
    /\ LET new == FailFetch(inf)
       IN  /\ inf' = new
           /\ allResources' = FlatMap(Pages(new))
           /\ ioQueued' = Reattach(inf, new, ioQueued)
           /\ observers' = ReattachRef(observers, inf, new)
    /\ UNCHANGED <<dbCount, pageSize, intersecting, abandoned>>
    /\ UNCHANGED cacheVars
    /\ UNCHANGED otherVars

\* window focus with a stale entry: refetchOnWindowFocus
WindowFocusInfinite ==
    /\ NoMicrotask
    /\ inf.mounted
    /\ ~IsFetching(inf)
    /\ inf' = Refetch(inf)
    /\ UNCHANGED <<dbCount, pageSize, allResources, intersecting, ioQueued,
                   abandoned, observers>>
    /\ UNCHANGED cacheVars
    /\ UNCHANGED otherVars

\* the sentinel scrolls into / out of the root margin
SentinelEnter ==
    /\ NoMicrotask
    /\ inf.mounted
    /\ ~intersecting
    /\ intersecting' = TRUE
    /\ ioQueued' = TRUE
    /\ UNCHANGED <<dbCount, pageSize, inf, allResources, abandoned,
                   observers>>
    /\ UNCHANGED cacheVars
    /\ UNCHANGED otherVars

SentinelLeave ==
    /\ NoMicrotask
    /\ inf.mounted
    /\ intersecting
    /\ intersecting' = FALSE
    /\ ioQueued' = TRUE
    /\ UNCHANGED <<dbCount, pageSize, inf, allResources, abandoned,
                   observers>>
    /\ UNCHANGED cacheVars
    /\ UNCHANGED otherVars

\* fetchNextPage(): cancelRefetch defaults to true, so a fetch already
\* attached to the query is cancelled silently (its request keeps
\* travelling: queryFn does not consume the abort signal)
FetchNextPage(e) ==
    [e EXCEPT !.fetch = StartFetch("next",
                                   GetNextPageParam(e.pages[Len(e.pages)]),
                                   RevertOf(e)),
              !.fetchMeta = "forward"]

\* the queued IntersectionObserver notification is delivered
DeliverIO ==
    /\ NoMicrotask
    /\ observers.current = "connected"
    /\ ioQueued
    /\ IF TriggerFires(inf, intersecting)
       THEN /\ IsFetching(inf) => abandoned < MaxAbandoned
            /\ inf' = FetchNextPage(inf)
            /\ abandoned' = IF IsFetching(inf) THEN abandoned + 1
                            ELSE abandoned
            \* isFetchingNextPage became true: the ref is re-attached
            /\ ioQueued' = TRUE
            /\ observers' = ReattachRef(observers, inf, inf')
       ELSE /\ ioQueued' = FALSE
            /\ UNCHANGED <<inf, abandoned, observers>>
    /\ UNCHANGED <<dbCount, pageSize, allResources, intersecting>>
    /\ UNCHANGED cacheVars
    /\ UNCHANGED otherVars

\* the response of a cancelled fetch arrives and is discarded
DropAbandoned ==
    /\ NoMicrotask
    /\ abandoned > 0
    /\ abandoned' = abandoned - 1
    /\ UNCHANGED <<dbCount, pageSize, inf, allResources, intersecting,
                   ioQueued, observers>>
    /\ UNCHANGED cacheVars
    /\ UNCHANGED otherVars

\* the grid unmounts: the query loses its observer (the fetch attached to
\* it goes on, queryFn does not take the abort signal), React calls the ref
\* callback with null and runs the cleanup of the effect
UnmountInfinite ==
    /\ NoMicrotask
    /\ inf.mounted
    /\ inf' = [inf EXCEPT !.mounted = FALSE]
    /\ observers' = Cleanup(SentinelRef(observers, FALSE))
    /\ intersecting' = FALSE
    /\ ioQueued' = (ioQueued /\ Connected(observers') > 0)
    /\ UNCHANGED <<dbCount, pageSize, allResources, abandoned>>
    /\ UNCHANGED cacheVars
    /\ UNCHANGED otherVars

\* ---------------------------------------------------- list query actions
\* the table mounts or its status filter changes: useResources(filters)
\* observes the entry of the new key and fetches when it is stale
ObserveList(f, stale) ==
    /\ NoMicrotask
    /\ observed # f
    /\ observed' = f
    /\ LET e == [lists[f] EXCEPT !.exists = TRUE]
       IN  lists' = [lists EXCEPT ![f] =
                IF ~e.defined \/ e.invalidated \/ stale
                THEN FetchList(e, FALSE) ELSE e]
    /\ UNCHANGED <<muts, now>>
    /\ UNCHANGED pagingVars
    /\ UNCHANGED otherVars

\* window focus with a stale observed list: refetchOnWindowFocus
WindowFocusList ==
    /\ NoMicrotask
    /\ observed \in Filters
    /\ ~IsFetching(lists[observed])
    /\ lists' = [lists EXCEPT ![observed] = FetchList(@, FALSE)]
    /\ UNCHANGED <<observed, muts, now>>
    /\ UNCHANGED pagingVars
    /\ UNCHANGED otherVars

\* fetchResources resolves
ListResponseOk(f, gen) ==
    /\ NoMicrotask
    /\ IsFetching(lists[f])
    /\ lists' = [lists EXCEPT ![f] =
                    [SetData(@, FetchResources(f, gen)) EXCEPT
                        !.fetch = NoFetch]]
    /\ UNCHANGED <<observed, muts, now>>
    /\ UNCHANGED pagingVars
    /\ UNCHANGED otherVars

\* fetchResources throws and the retries are used up: the entry keeps
\* its data
ListResponseFail(f) ==
    /\ NoMicrotask
    /\ IsFetching(lists[f])
    /\ lists' = [lists EXCEPT ![f].fetch = NoFetch]
    /\ UNCHANGED <<observed, muts, now>>
    /\ UNCHANGED pagingVars
    /\ UNCHANGED otherVars

\* gcTime elapsed on an entry without observer: it leaves the cache
GcList(f) ==
    /\ NoMicrotask
    /\ lists[f].exists
    /\ observed # f
    /\ ~IsFetching(lists[f])
    /\ lists' = [lists EXCEPT ![f] = ListInit]
    /\ UNCHANGED <<observed, muts, now>>
    /\ UNCHANGED pagingVars
    /\ UNCHANGED otherVars

\* ------------------------------------------------------ mutation actions
\* the first mutation slot not yet used
NextSlot(m) ==
    /\ muts[m].pc = "idle"
    /\ \A k \in Mutations : k < m => muts[k].pc # "idle"

\* the mutations that have been started and have not settled
Unsettled == {k \in Mutations : muts[k].pc \in {"onMutate", "pending"}}

\* mutate(): onMutate runs up to `await queryClient.cancelQueries(...)`
StartMutation(m, kind, rid, st, fails) ==
    /\ NoMicrotask
    /\ NextSlot(m)
    /\ IsFetching(inf) => abandoned < MaxAbandoned
    /\ now' = now + 1
    /\ muts' = [muts EXCEPT ![m] =
                   [pc |-> "onMutate", kind |-> kind, resourceId |-> rid,
                    status |-> st, fails |-> fails, at |-> now + 1,
                    context |-> EmptyContext,
                    cancelled |-> FetchingKeys(lists, inf)]]
    /\ lists' = CancelLists(lists)
    /\ inf' = CancelInfinite(inf)
    /\ abandoned' = IF IsFetching(inf) THEN abandoned + 1 ELSE abandoned
    /\ ioQueued' = Reattach(inf, inf', ioQueued)
    /\ observers' = ReattachRef(observers, inf, inf')
    /\ UNCHANGED <<dbCount, pageSize, allResources, intersecting, observed>>

\* a mutation started while no other one is in flight
Mutate(m, kind, rid, st, fails) ==
    /\ Cardinality(Unsettled) < MaxPending
    /\ StartMutation(m, kind, rid, st, fails)

\* the table shows the row rid with status ACTIVE
ShowsActive(rid) ==
    /\ observed \in Filters
    /\ lists[observed].defined
    /\ \E i \in 1..Len(lists[observed].items) :
          /\ lists[observed].items[i].id = rid
          /\ lists[observed].items[i].status = "ACTIVE"

\* the "Maintain" button of a table row whose status is ACTIVE;
\* updateResourceStatus has no failing path
MutateStatus(m, rid) ==
    /\ ShowsActive(rid)
    /\ Mutate(m, "status", rid, "MAINTENANCE", FALSE)
    /\ UNCHANGED otherVars

\* handleSubmit of the create form with valid values; createResourceApi
\* throws when the name contains 'error'
MutateCreate(m, nameHasError) ==
    /\ Mutate(m, "create", TempId(now + 1), "ACTIVE", nameHasError)
    /\ UNCHANGED otherVars

\* a mutation started first, or while the one started before it is still
\* in flight; before keeps the list entries the first one met
MutateOverlapping(m, kind, rid, st, fails) ==
    /\ m = 1 \/ Unsettled # {}
    /\ Cardinality(Unsettled) < MaxOverlap
    /\ StartMutation(m, kind, rid, st, fails)
    /\ before' = IF m = 1 THEN GetQueriesData(lists) ELSE before
    /\ UNCHANGED exceptBefore

MutateStatusOverlapping(m, rid) ==
    /\ ShowsActive(rid)
    /\ MutateOverlapping(m, "status", rid, "MAINTENANCE", FALSE)

MutateCreateOverlapping(m, nameHasError) ==
    MutateOverlapping(m, "create", TempId(now + 1), "ACTIVE", nameHasError)

\* cancelQueries has resolved: snapshot, optimistic patch, then the
\* mutation function is called (the request is issued)
OnMutateResume(m) ==
    /\ muts[m].pc = "onMutate"
    /\ muts' = [muts EXCEPT ![m].pc = "pending",
                            ![m].context = GetQueriesData(lists),
                            ![m].cancelled = {}]
    /\ lists' = SetQueriesData(lists, muts[m], now)
    /\ UNCHANGED <<observed, now>>
    /\ UNCHANGED pagingVars
    /\ UNCHANGED otherVars

\* the mutation function resolves or rejects: onError, onSuccess, onSettled
MutationSettle(m) ==
    /\ NoMicrotask
    /\ muts[m].pc = "pending"
    /\ abandoned + SettleAbandons(inf, muts[m]) <= MaxAbandoned
    /\ muts' = [muts EXCEPT ![m] =
                   [MutInit EXCEPT !.pc = IF muts[m].fails THEN "error"
                                          ELSE "success",
                                   !.kind = muts[m].kind]]
    /\ lists' = SettleLists(lists, muts[m], observed)
    /\ inf' = SettleInfinite(inf, muts[m])
    /\ abandoned' = abandoned + SettleAbandons(inf, muts[m])
    /\ ioQueued' = Reattach(inf, inf', ioQueued)
    /\ observers' = ReattachRef(observers, inf, inf')
    /\ UNCHANGED <<dbCount, pageSize, allResources, intersecting, observed,
                   now>>
    /\ UNCHANGED otherVars

\* ------------------------------------------------------- form actions
\* setFieldValue(field, value): the value is stored and the error of the
\* field is cleared
SetFieldValue(field, value) ==
    /\ NoMicrotask
    /\ form.values[field] # value
    /\ form' = [form EXCEPT !.values[field] = value,
                            !.errors[field] = NoError]
    /\ UNCHANGED pagingVars
    /\ UNCHANGED cacheVars
    /\ UNCHANGED exceptForm

\* handleSubmit(): validate(), and mutation.mutateAsync(values) only when
\* it returned true
HandleSubmit(m) ==
    /\ NoMicrotask
    /\ form.submits < MaxSubmits
    /\ LET result == Validate(form.values)
       IN  /\ form' = [form EXCEPT !.errors = result.errors,
                                   !.submits = form.submits + 1]
           /\ IF result.ok
              THEN Mutate(m, "create", TempId(now + 1), "ACTIVE",
                          form.values.name.chars = "error")
              ELSE /\ NextSlot(m)
                   /\ UNCHANGED pagingVars
                   /\ UNCHANGED cacheVars
    /\ UNCHANGED exceptForm

FormNext ==
    \/ \E name \in Names : SetFieldValue("name", name)
    \/ \E region \in Regions : SetFieldValue("region", region)
    \/ \E cost \in Costs : SetFieldValue("costPerHour", cost)
    \/ \E m \in Mutations : HandleSubmit(m)

\* the cache as the form meets it: one list observed and loaded
FormCacheNext ==
    \/ \E f \in Filters : ObserveList(f, FALSE)
    \/ \E f \in Filters, gen \in GenLists : ListResponseOk(f, gen)
    \/ \E m \in Mutations : OnMutateResume(m)
    \/ \E m \in Mutations : MutationSettle(m)

\* ------------------------------------------------------- store actions
\* every action is one set(): the recipe runs on a draft of the state;
\* Called records which action it was and the page shown before it
Called(op) == storeCalls' = [op |-> op, page |-> store.pagination.page]

SetTheme(theme) ==
    /\ Called("setTheme")
    /\ store' = [store EXCEPT !.preferences.theme = theme]
    /\ UNCHANGED <<pagingVars, cacheVars, exceptStore>>

ToggleTheme ==
    /\ Called("toggleTheme")
    /\ store' = [store EXCEPT !.preferences.theme =
                    IF @ = "dark" THEN "light" ELSE "dark"]
    /\ UNCHANGED <<pagingVars, cacheVars, exceptStore>>

SetLocale(locale) ==
    /\ Called("setLocale")
    /\ store' = [store EXCEPT !.preferences.locale = locale]
    /\ UNCHANGED <<pagingVars, cacheVars, exceptStore>>

ToggleSidebar ==
    /\ Called("toggleSidebar")
    /\ store' = [store EXCEPT !.preferences.sidebarCollapsed = ~@]
    /\ UNCHANGED <<pagingVars, cacheVars, exceptStore>>

ToggleCompactMode ==
    /\ Called("toggleCompactMode")
    /\ store' = [store EXCEPT !.preferences.compactMode = ~@]
    /\ UNCHANGED <<pagingVars, cacheVars, exceptStore>>

SetSearchFilter(search) ==
    /\ Called("setSearchFilter")
    /\ store' = ResetPage([store EXCEPT !.filters.search = search])
    /\ UNCHANGED <<pagingVars, cacheVars, exceptStore>>

SetStatusFilter(status) ==
    /\ Called("setStatusFilter")
    /\ store' = ResetPage([store EXCEPT !.filters.status = status])
    /\ UNCHANGED <<pagingVars, cacheVars, exceptStore>>

SetDepartmentFilter(department) ==
    /\ Called("setDepartmentFilter")
    /\ store' = ResetPage([store EXCEPT !.filters.department = department])
    /\ UNCHANGED <<pagingVars, cacheVars, exceptStore>>

SetProviderFilter(provider) ==
    /\ Called("setProviderFilter")
    /\ store' = ResetPage([store EXCEPT !.filters.provider = provider])
    /\ UNCHANGED <<pagingVars, cacheVars, exceptStore>>

SetDateRange(from, to) ==
    /\ Called("setDateRange")
    /\ store' = ResetPage([store EXCEPT !.filters.dateRange =
                              [from |-> from, to |-> to]])
    /\ UNCHANGED <<pagingVars, cacheVars, exceptStore>>

ResetFilters ==
    /\ Called("resetFilters")
    /\ store' = ResetPage([store EXCEPT !.filters = defaultFilters])
    /\ UNCHANGED <<pagingVars, cacheVars, exceptStore>>

SetSort(sort) ==
    /\ Called("setSort")
    /\ store' = [store EXCEPT !.sort = sort]
    /\ UNCHANGED <<pagingVars, cacheVars, exceptStore>>

SetPage(page) ==
    /\ Called("setPage")
    /\ store' = [store EXCEPT !.pagination.page = page]
    /\ UNCHANGED <<pagingVars, cacheVars, exceptStore>>

SetPageSize(size) ==
    /\ Called("setPageSize")
    /\ store' = ResetPage([store EXCEPT !.pagination.pageSize = size])
    /\ UNCHANGED <<pagingVars, cacheVars, exceptStore>>

StoreNext ==
    \/ \E theme \in Themes : SetTheme(theme)
    \/ ToggleTheme
    \/ \E locale \in Locales : SetLocale(locale)
    \/ ToggleSidebar
    \/ ToggleCompactMode
    \/ \E search \in Searches : SetSearchFilter(search)
    \/ \E status \in StatusFilters : SetStatusFilter(status)
    \/ \E department \in Departments : SetDepartmentFilter(department)
    \/ \E provider \in Providers : SetProviderFilter(provider)
    \/ \E from \in Dates, to \in Dates : SetDateRange(from, to)
    \/ ResetFilters
    \/ \E sort \in Sorts : SetSort(sort)
    \/ \E page \in PageNumbers : SetPage(page)
    \/ \E size \in PageSizes : SetPageSize(size)

\* ---------------------------------------------------- debounce actions
\* the debounced function is called with args
DebouncedCall(args) ==
    /\ debounced.calls < MaxCalls
    /\ debounced.clock + Delay <= MaxClock
    /\ LET d == debounced
           id == d.calls + 1
           same == InBurst(d)
       IN  debounced' =
             [d EXCEPT !.timers = SetTimeout(ClearTimeout(d.timers,
                                                d.timeoutId),
                                             id, d.clock, args),
                       !.timeoutId = id,
                       !.calls = id,
                       !.lastCallAt = d.clock,
                       !.lastArgs = args,
                       !.burstLen = IF same THEN @ + 1 ELSE 1,
                       !.invoked = IF same THEN @ ELSE 0]
    /\ UNCHANGED <<pagingVars, cacheVars, exceptDebounce>>

\* the callback of a timeout runs, at its due time or later: fn(...args)
TimeoutFires ==
    /\ \E t \in debounced.timers :
          /\ debounced.clock >= t.due
          /\ debounced' = [debounced EXCEPT !.timers = @ \ {t},
                                            !.invoked = @ + 1,
                                            !.invokedArgs = t.args]
    /\ UNCHANGED <<pagingVars, cacheVars, exceptDebounce>>

\* a millisecond passes
Tick ==
    /\ debounced.clock < MaxClock
    /\ debounced' = [debounced EXCEPT !.clock = @ + 1]
    /\ UNCHANGED <<pagingVars, cacheVars, exceptDebounce>>

DebounceNext ==
    \/ \E args \in Args : DebouncedCall(args)
    \/ TimeoutFires
    \/ Tick

\* -------------------------------------------------------- socket actions
\* the component mounts: the effect calls connect() when autoConnect
MountSocket(autoConnect) ==
    /\ ~socket.mounted /\ ~socket.unmounted
    /\ LET s == [socket EXCEPT !.mounted = TRUE]
       IN  socket' = IF autoConnect THEN ConnectOf(s) ELSE s
    /\ UNCHANGED <<pagingVars, cacheVars, exceptSocket>>

\* the component calls connect()
SocketConnect ==
    /\ socket.mounted
    /\ socket.connects < MaxConnects
    /\ socket' = ConnectOf(socket)
    /\ UNCHANGED <<pagingVars, cacheVars, exceptSocket>>

\* the callback of a connection timeout runs: the handshake is over and
\* the message interval is set
ConnectTimeoutFires(id) ==
    /\ id \in socket.timeouts
    /\ socket' = [SetState(socket, [socket EXCEPT !.status = "connected"])
                    EXCEPT !.timeouts = @ \ {id},
                           !.isConnectedRef = TRUE,
                           !.intervalRef = id,
                           !.intervals = @ \cup {id}]
    /\ UNCHANGED <<pagingVars, cacheVars, exceptSocket>>

\* the callback of a message interval runs: a message is generated and
\* stored
IntervalFires(id, type) ==
    /\ id \in socket.intervals
    /\ socket.generated < MaxMessages
    /\ LET message == Message(socket.generated + 1, type)
           s == [socket EXCEPT !.generated = @ + 1]
       IN  socket' =
             SetState(s, [s EXCEPT
                !.lastMessage = message,
                !.healthData = IF type = "SYSTEM_HEALTH" THEN message.seq
                               ELSE @,
                !.messageHistory = Slice(<<message>> \o @, MaxHistory)])
    /\ UNCHANGED <<pagingVars, cacheVars, exceptSocket>>

\* the component calls disconnect()
SocketDisconnect ==
    /\ socket.mounted
    /\ socket' = [socket EXCEPT !.isConnectedRef = FALSE,
                                !.intervals = ClearInterval(socket),
                                !.intervalRef = Null,
                                !.status = "disconnected",
                                !.quiet = TRUE]
    /\ UNCHANGED <<pagingVars, cacheVars, exceptSocket>>

\* the component unmounts: the cleanup of the effect runs
UnmountSocket ==
    /\ socket.mounted
    /\ socket' = [socket EXCEPT !.intervals = ClearInterval(socket),
                                !.isConnectedRef = FALSE,
                                !.mounted = FALSE,
                                !.unmounted = TRUE]
    /\ UNCHANGED <<pagingVars, cacheVars, exceptSocket>>

SocketNext ==
    \/ \E autoConnect \in BOOLEAN : MountSocket(autoConnect)
    \/ SocketConnect
    \/ \E id \in 1..MaxConnects : ConnectTimeoutFires(id)
    \/ \E id \in 1..MaxConnects, type \in MessageTypes :
          IntervalFires(id, type)
    \/ SocketDisconnect
    \/ UnmountSocket

\* ----------------------------------------------------------- API actions
\* the router passes req to the handler named; out is what it leaves
Exchange(name, req, out) ==
    /\ http.n < MaxExchanges
    /\ Route(req.method, req.url) = name
    /\ db' = out.db
    /\ http' = [n |-> http.n + 1, handler |-> name,
                req |-> [method |-> req.method, url |-> req.url,
                         token |-> req.token, limited |-> req.limited,
                         dbDown |-> req.dbDown],
                status |-> out.status, data |-> out.data,
                body |-> out.body]
    /\ UNCHANGED <<pagingVars, cacheVars, exceptApi>>

RouteAccessRequests(req) ==
    Exchange("accessRequestsIndex", req, AccessRequestsIndex(req, db))

RouteAdminAccessRequests(req) ==
    Exchange("adminAccessRequestsIndex", req,
             AdminAccessRequestsIndex(req, db))

RouteAdminUsers(req) ==
    Exchange("adminUsersIndex", req, AdminUsersIndex(req, db))

RouteApprove(req) ==
    Exchange("adminAccessRequestsApprove", req,
             AdminAccessRequestsApprove(req, db))

RouteRole(req) ==
    Exchange("adminUsersRole", req, AdminUsersRole(req, db))

\* no route matches: 404 from the router
RouteNotFound(req) ==
    Exchange("notFound", req, Outcome(db, 404, "error", FALSE))

ApiNext ==
    \/ \E head \in Heads, resource \in AccessResources :
          RouteAccessRequests(Request(head, "-", "-", resource))
    \/ \E head \in Heads : RouteAdminAccessRequests(Plain(head))
    \/ \E head \in Heads : RouteAdminUsers(Plain(head))
    \/ \E head \in Heads, id \in RequestIds :
          RouteApprove(Request(head, id, "-", "-"))
    \/ \E head \in Heads, id \in ClerkIds, role \in Roles :
          RouteRole(Request(head, id, role, "-"))
    \/ \E head \in Heads : RouteNotFound(Plain(head))

\* the lists under mutations that overlap
OverlapNext ==
    \/ \E f \in Filters : ObserveList(f, FALSE)
    \/ \E f \in Filters, gen \in GenLists : ListResponseOk(f, gen)
    \/ \E m \in Mutations, rid \in 1..ListLen :
          MutateStatusOverlapping(m, rid)
    \/ \E m \in Mutations, e \in BOOLEAN : MutateCreateOverlapping(m, e)
    \/ \E m \in Mutations : OnMutateResume(m)
    \/ \E m \in Mutations : MutationSettle(m)

PagingNext ==
    \/ MountInfinite
    \/ PageResponseOk
    \/ PageResponseFail
    \/ WindowFocusInfinite
    \/ SentinelEnter
    \/ SentinelLeave
    \/ DeliverIO
    \/ DropAbandoned

ListNext ==
    \/ \E f \in Filters, stale \in BOOLEAN : ObserveList(f, stale)
    \/ WindowFocusList
    \/ \E f \in Filters, gen \in GenLists : ListResponseOk(f, gen)
    \/ \E f \in Filters : ListResponseFail(f)
    \/ \E f \in Filters : GcList(f)

MutationNext ==
    \/ \E m \in Mutations, rid \in 1..ListLen : MutateStatus(m, rid)
    \/ \E m \in Mutations, e \in BOOLEAN : MutateCreate(m, e)
    \/ \E m \in Mutations : OnMutateResume(m)
    \/ \E m \in Mutations : MutationSettle(m)

\* the infinite entry as the mutations meet it: mounted, loaded, refetched
InfiniteNext ==
    \/ MountInfinite
    \/ PageResponseOk
    \/ PageResponseFail
    \/ DropAbandoned

Next == InfiniteNext \/ ListNext \/ MutationNext

\* the pagination session with the grid unmounting and mounting again
TeardownNext == PagingNext \/ UnmountInfinite

SpecTeardown == Init /\ [][TeardownNext]_vars

\* the pagination session alone, over every table size and page size
SpecPaging == Init /\ [][PagingNext]_vars

\* the query cache under the mutations, over one table
InitCache == Init /\ dbCount = MaxN /\ pageSize = MaxL

Spec == InitCache /\ [][Next]_vars

\* the create form over the query cache
SpecForm == InitCache /\ [][FormNext \/ FormCacheNext]_vars

\* the app store alone: every action from every state the actions reach
SpecStore == InitCache /\ [][StoreNext]_vars

\* one debounced function, its callers and the timers of the event loop
SpecDebounce == InitCache /\ [][DebounceNext]_vars

\* one useSocketData instance from before its mount to after its unmount
SpecSocket == InitCache /\ [][SocketNext]_vars

\* the list entries under two mutations in flight at the same time
SpecOverlap == InitCache /\ [][OverlapNext]_vars

\* the API behind the router, called by any identity with any token
SpecApi == InitCache /\ [][ApiNext]_vars

\* the hook instance with timers that run: the callback of every timeout
\* and interval that is set runs in the end; what the component does
\* (connect, disconnect, unmount) is left to it
SpecSocketFair ==
    /\ SpecSocket
    /\ WF_vars(\E id \in 1..MaxConnects : ConnectTimeoutFires(id))
    /\ WF_vars(\E id \in 1..MaxConnects, type \in MessageTypes :
                  IntervalFires(id, type))

\* the pagination session with the scheduling the claims about termination
\* presuppose: the grid mounts, the user keeps bringing the sentinel into
\* view, the observer delivers its notifications, the requests for the
\* first and for a next page are answered successfully again and again,
\* the responses of cancelled fetches arrive, and a first page that failed
\* is fetched again when the window regains focus
SpecPagingFair ==
    /\ SpecPaging
    /\ WF_vars(MountInfinite)
    /\ SF_vars(WindowFocusInfinite /\ ~inf.defined)
    /\ WF_vars(SentinelEnter)
    /\ SF_vars(DeliverIO /\ TriggerFires(inf, intersecting))
    /\ SF_vars(inf.fetch.kind = "initial" /\ PageResponseOk)
    /\ SF_vars(IsFetchingNextPage(inf) /\ PageResponseOk)
    /\ WF_vars(DropAbandoned)

\* ------------------------------------------------------------ properties
Settles(m) == muts[m].pc = "pending" /\ muts'[m].pc \in {"success", "error"}

SettlesFailed(m) == muts[m].pc = "pending" /\ muts'[m].pc = "error"

Shows(items, rid, st) ==
    \A i \in 1..Len(items) : items[i].id = rid => items[i].status = st

\* C1: once the rollback of a failed mutation has run, every list entry that
\* existed when the mutation took its snapshot holds exactly the data it
\* held then (no data, or the same items in the same order).
C1_RollbackRestores ==
    [][\A m \in Mutations : SettlesFailed(m) =>
          \A f \in Filters : muts[m].context[f].present =>
              /\ lists'[f].defined = muts[m].context[f].defined
              /\ lists'[f].items = muts[m].context[f].items]_vars

\* C2: while a status mutation for resource r is pending, every list entry
\* and every page of the infinite sequence that contains r shows r with the
\* requested status.
C2_OptimisticVisibility ==
    \A m \in Mutations :
        (muts[m].kind = "status" /\ muts[m].pc = "pending") =>
            /\ \A f \in Filters :
                  lists[f].defined =>
                      Shows(lists[f].items, muts[m].resourceId, muts[m].status)
            /\ \A i \in 1..Len(inf.pages) :
                  Shows(inf.pages[i].data, muts[m].resourceId, muts[m].status)

\* C3: while onMutate waits for cancelQueries, that is before the snapshot
\* and the optimistic patch, no fetch is attached to any entry under
\* ['resources'] any more and no snapshot has been taken: a fetch that was
\* in flight when the mutation started cannot write after the patch.
C3_CancelBeforePatch ==
    \A m \in Mutations :
        muts[m].pc = "onMutate" =>
            /\ FetchingKeys(lists, inf) = {}
            /\ muts[m].context = EmptyContext

C3_Witness ==
    \E m \in Mutations :
        /\ muts[m].pc = "onMutate"
        /\ "infinite" \in muts[m].cancelled
        /\ \E f \in Filters : f \in muts[m].cancelled /\ lists[f].defined

\* C4 as claimed: a successful mutation invalidates every entry under
\* ['resources'], a failed one invalidates none.
C4_InvalidationDependsOnOutcome ==
    [][\A m \in Mutations :
          /\ (Settles(m) /\ ~SettlesFailed(m)) =>
                \A f \in Filters : lists'[f].exists => lists'[f].invalidated
          /\ SettlesFailed(m) =>
                /\ \A f \in Filters :
                      lists'[f].invalidated => lists[f].invalidated
                /\ inf'.invalidated => inf.invalidated]_vars

\* C4 as amended: whichever way a mutation settles, every entry under
\* ['resources'] is invalidated and the observed ones are refetched; a
\* success writes nothing else into the lists (the response is not merged);
\* a failure first writes back the snapshotted data and leaves the mutation
\* in the error state.
C4_InvalidationOnSettle ==
    [][\A m \in Mutations : Settles(m) =>
          /\ \A f \in Filters : lists'[f].exists =>
                /\ lists'[f].invalidated
                /\ observed = f => IsFetching(lists'[f])
          /\ inf.mounted => inf'.invalidated /\ IsFetching(inf')
          /\ muts[m].fails <=> muts'[m].pc = "error"
          /\ ~muts[m].fails =>
                \A f \in Filters : /\ lists'[f].defined = lists[f].defined
                                   /\ lists'[f].items = lists[f].items
          /\ muts[m].fails =>
                \A f \in Filters :
                    IF muts[m].context[f].present /\ muts[m].context[f].defined
                    THEN /\ lists'[f].defined
                         /\ lists'[f].items = muts[m].context[f].items
                    ELSE /\ lists'[f].defined = lists[f].defined
                         /\ lists'[f].items = lists[f].items]_vars

C4_Witness ==
    \E m \in Mutations, f \in Filters :
        /\ muts[m].pc = "error"
        /\ lists[f].defined
        /\ lists[f].invalidated
        /\ IsFetching(lists[f])
        /\ inf.invalidated

CeilDiv(a, b) == (a + b - 1) \div b

\* C5: over a table of N rows read with page size L, one load exposes L
\* items and hasMore (N > L), and ceil(N/L) loads expose all N items with
\* hasMore false.
C5_SuccessfulPaging ==
    (inf.defined /\ dbCount >= 1) =>
        /\ (Len(inf.pages) = 1 /\ dbCount > pageSize) =>
              HasNextPage(inf) /\ Len(allResources) = pageSize
        /\ Len(inf.pages) = CeilDiv(dbCount, pageSize) =>
              ~HasNextPage(inf) /\ Len(allResources) = dbCount

\* the number of pages the list endpoint serves to a client that follows
\* the cursors from the start
RECURSIVE ServedFrom(_, _, _)
ServedFrom(rows, limit, cursor) ==
    LET page == ListHandler(rows, cursor, limit)
    IN  IF page.nextCursor = Null THEN 1
        ELSE 1 + ServedFrom(rows, limit, page.nextCursor)

PagesServed == ServedFrom(DbRows(dbCount), pageSize, Null)

Exhausted == inf.defined /\ ~HasNextPage(inf)

\* C6: loading page after page reaches hasNextPage = false, by then the
\* pages loaded are as many as the server serves, and no next-page request
\* is issued while hasNextPage is false.
C6_CursorTermination ==
    /\ <>Exhausted
    /\ [](Exhausted => Len(inf.pages) = PagesServed)
    /\ [](inf.defined => Len(inf.pages) <= PagesServed)
    /\ [][~HasNextPage(inf) =>
            (IsFetchingNextPage(inf') => IsFetchingNextPage(inf))]_vars

C6_Witness == Exhausted /\ Len(inf.pages) >= 2 /\ PagesServed >= 2

\* C7: every page held satisfies hasMore = (nextCursor # null), and
\* hasNextPage is true exactly when the last loaded page has a next cursor.
C7_PageInvariant ==
    /\ \A i \in 1..Len(inf.pages) :
          inf.pages[i].hasMore = (inf.pages[i].nextCursor # Null)
    /\ HasNextPage(inf) =
          (Len(inf.pages) > 0 /\ inf.pages[Len(inf.pages)].hasMore)

C7_Witness ==
    /\ Len(inf.pages) >= 2
    /\ inf.pages[1].hasMore
    /\ ~inf.pages[Len(inf.pages)].hasMore
    /\ ~HasNextPage(inf)

\* position of the first item of page i in the concatenation, minus one
RECURSIVE Offset(_, _)
Offset(pages, i) ==
    IF i = 1 THEN 0 ELSE Offset(pages, i - 1) + Len(pages[i - 1].data)

\* C8: the exposed list is the concatenation of the items of the loaded
\* pages in load order, and empty when no page is loaded.
C8_Flattening ==
    /\ Len(allResources) = Offset(inf.pages, Len(inf.pages) + 1)
    /\ \A i \in 1..Len(inf.pages) :
          \A j \in 1..Len(inf.pages[i].data) :
              allResources[Offset(inf.pages, i) + j] = inf.pages[i].data[j]

C8_Witness ==
    /\ Len(inf.pages) >= 2
    /\ Len(inf.pages[1].data) >= 2
    /\ Len(inf.pages[2].data) >= 1

\* page requests on the wire: the one of the attached fetch and those of
\* cancelled fetches that have not been answered yet
InFlight == (IF IsFetching(inf) THEN 1 ELSE 0) + abandoned

\* C9: at most one page request of the session is in flight at any time.
C9_NoConcurrentLoads == InFlight <= 1

NextPageFails ==
    /\ IsFetchingNextPage(inf)
    /\ ~IsFetching(inf')
    /\ inf'.status = "error"

\* C10: a next-page load that fails leaves the loaded pages and the
\* flattened list as they were and surfaces the error; the next cursor is
\* still the one of the failed request and the trigger may load it again.
C10_FailurePolicy ==
    [][NextPageFails =>
          /\ inf'.pages = inf.pages
          /\ inf'.defined
          /\ allResources' = allResources
          /\ IsFetchNextPageError(inf')
          /\ HasNextPage(inf')
          /\ GetNextPageParam(inf'.pages[Len(inf'.pages)]) = inf.fetch.param
          /\ TriggerFires(inf', TRUE)]_vars

C10_Witness ==
    /\ IsFetchNextPageError(inf)
    /\ ~IsFetching(inf)
    /\ Len(inf.pages) >= 1
    /\ allResources # <<>>

\* a status mutation m takes the given step of its life
StatusStep(m, from, to) ==
    /\ muts[m].pc = from
    /\ muts'[m].pc = to
    /\ muts'[m].kind = "status"

\* a fetch of the list of filter f starts or ends, outside any mutation step
LoadStep(f) == muts' = muts /\ lists'[f].fetch # lists[f].fetch

\* C11 as claimed: loading the list of the observed filter, or starting a
\* status mutation from it, leaves the entry of every other filter as it
\* was.
C11_FilterIndependence ==
    [][\A f \in Filters : (observed' \in Filters /\ f # observed') =>
          /\ LoadStep(observed') => lists'[f] = lists[f]
          /\ \A m \in Mutations :
                (StatusStep(m, "idle", "onMutate")
                    \/ StatusStep(m, "onMutate", "pending")) =>
                lists'[f] = lists[f]]_vars

\* the items are those of old in the same order, with resource rid alone
\* changed, to status st
PatchedFrom(items, old, rid, st) ==
    /\ Len(items) = Len(old)
    /\ \A i \in 1..Len(old) :
          /\ items[i].id = old[i].id
          /\ items[i].status = (IF old[i].id = rid THEN st ELSE old[i].status)

\* C11 as amended: loading the list of one filter leaves the entries of
\* the other filters unchanged; a status mutation reaches the entry of
\* every filter: starting it cancels the entry's fetch, the optimistic patch
\* rewrites the resource wherever the entry holds data (other items and
\* the order unchanged), and settling marks every existing entry
\* invalidated, refetching only the observed one.
C11_MutationReachesEveryList ==
    [][\A f \in Filters : (observed' \in Filters /\ f # observed') =>
          /\ LoadStep(observed') => lists'[f] = lists[f]
          /\ \A m \in Mutations :
                /\ StatusStep(m, "idle", "onMutate") =>
                      lists'[f] = [lists[f] EXCEPT !.fetch = NoFetch]
                /\ StatusStep(m, "onMutate", "pending") =>
                      IF lists[f].defined
                      THEN /\ lists'[f].defined
                           /\ PatchedFrom(lists'[f].items, lists[f].items,
                                          muts[m].resourceId, muts[m].status)
                           /\ ~lists'[f].invalidated
                      ELSE lists'[f] = lists[f]
                /\ StatusStep(m, "pending", "success") =>
                      /\ lists'[f].exists = lists[f].exists
                      /\ lists'[f].defined = lists[f].defined
                      /\ lists'[f].items = lists[f].items
                      /\ lists'[f].fetch = lists[f].fetch
                      /\ lists[f].exists => lists'[f].invalidated]_vars

C11_Witness ==
    \E m \in Mutations, f \in Filters :
        /\ muts[m].pc = "success"
        /\ muts[m].kind = "status"
        /\ observed \in Filters
        /\ f # observed
        /\ lists[f].defined
        /\ lists[f].invalidated
        /\ ~IsFetching(lists[f])
        /\ \E i \in 1..Len(lists[f].items) :
              lists[f].items[i].status = "MAINTENANCE"

\* C12: once the grid has been unmounted, a page load it started does not
\* write to the cache: the pages held and the exposed list stay as they
\* were at the teardown.
C12_CancelledOnTeardown ==
    [][~inf.mounted =>
          /\ inf'.defined = inf.defined
          /\ inf'.pages = inf.pages
          /\ allResources' = allResources]_vars

\* the step calls fetchNextPage(): a next-page fetch is attached that was
\* not, or one replaces the fetch that was attached
CallsFetchNextPage ==
    /\ IsFetchingNextPage(inf')
    /\ ~IsFetchingNextPage(inf) \/ abandoned' > abandoned

\* C13: fetchNextPage is called only on a notification of the connected
\* observer, with the sentinel intersecting, hasNextPage true and no
\* next-page load in flight: a second call comes only after the first has
\* settled.
C13_ViewTriggeredLoading ==
    [][CallsFetchNextPage =>
          /\ observers.current = "connected"
          /\ ioQueued
          /\ intersecting
          /\ HasNextPage(inf)
          /\ ~IsFetchingNextPage(inf)]_vars

C13_Witness ==
    /\ IsFetchingNextPage(inf)
    /\ Len(inf.pages) >= 2
    /\ intersecting
    /\ ioQueued

\* C14: the trigger has at most one connected observer; while the grid is
\* unmounted it has none, no notification is pending and fetchNextPage is
\* not called.
C14_ObserverTeardown ==
    /\ [](Connected(observers) <= 1)
    /\ [](~inf.mounted => Connected(observers) = 0 /\ ~ioQueued)
    /\ [][~inf.mounted => ~CallsFetchNextPage]_vars

C14_Witness ==
    /\ ~inf.mounted
    /\ observers.current = "disconnected"
    /\ HasNextPage(inf)
    /\ ~IsFetchingNextPage(inf)

\* createResourceSchema accepts the values
SchemaAccepts(values) ==
    /\ values.name.len >= NameMinLen
    /\ values.name.len <= NameMaxLen
    /\ values.name.chars \in {"valid", "error"}
    /\ values.region = "us-east-1"
    /\ values.costPerHour.isNumber
    /\ values.costPerHour.n >= 0
    /\ values.costPerHour.n <= CostMax

\* the message of the first check of the schema that the field fails
FirstMessage(field, values) ==
    CASE field = "name" ->
            IF values.name.len < NameMinLen
            THEN "Resource name must be at least 3 characters"
            ELSE IF values.name.len > NameMaxLen
            THEN "Resource name cannot exceed 128 characters"
            ELSE IF values.name.chars = "invalid"
            THEN "Name must start with alphanumeric and contain only letters, numbers, hyphens, and underscores"
            ELSE NoError
      [] field = "region" ->
            IF values.region = "us-east-1" THEN NoError
            ELSE "Please select a valid region"
      [] OTHER ->
            IF ~values.costPerHour.isNumber THEN "Cost must be a number"
            ELSE IF values.costPerHour.n < 0 THEN "Cost cannot be negative"
            ELSE IF values.costPerHour.n > CostMax
            THEN "Cost per hour cannot exceed $1,000"
            ELSE NoError

\* a create mutation is started by the step
CreateIssued ==
    \E m \in Mutations :
        /\ muts[m].pc = "idle"
        /\ muts'[m].pc = "onMutate"
        /\ muts'[m].kind = "create"

\* C15: a submission of values the schema rejects starts no mutation,
\* leaves the query cache as it is and records for every offending field
\* the message of its first failed check; a create mutation is started
\* only by a submission of values the schema accepts.
C15_ValidationBeforeNetwork ==
    [][/\ (form'.submits # form.submits /\ ~SchemaAccepts(form.values)) =>
             /\ muts' = muts
             /\ lists' = lists
             /\ inf' = inf
             /\ abandoned' = abandoned
             /\ \A f \in Fields :
                   form'.errors[f] = FirstMessage(f, form.values)
       /\ (form'.submits # form.submits /\ SchemaAccepts(form.values)) =>
             CreateIssued /\ form'.errors = NoErrors
       /\ CreateIssued =>
             form'.submits # form.submits /\ SchemaAccepts(form.values)]_vars

C15_Witness ==
    /\ form.submits = MaxSubmits
    /\ form.errors["name"] = "Resource name must be at least 3 characters"
    /\ form.errors["costPerHour"] # NoError
    /\ ~MatchesPattern(form.values.name)
    /\ \E m \in Mutations : muts[m].kind = "create"
    /\ \E f \in Filters : lists[f].defined

\* what a step leaves of the store outside filters and pagination
RestUnchanged ==
    /\ store'.preferences = store.preferences
    /\ store'.sort = store.sort

FiltersExcept(field) ==
    \A g \in DOMAIN store.filters \ {field} :
        store'.filters[g] = store.filters[g]

\* C16: after any filter action (setSearchFilter, setStatusFilter,
\* setDepartmentFilter, setProviderFilter, setDateRange, resetFilters) and
\* after setPageSize, whatever the state before, pagination.page is 1 and
\* the targeted field holds the value given (the defaults after
\* resetFilters), while preferences, sort and the other filter fields are
\* as they were.
C16_FilterResetsPage ==
    [][/\ \A v \in Searches : SetSearchFilter(v) =>
             /\ store'.pagination.page = 1
             /\ store'.filters.search = v
             /\ FiltersExcept("search") /\ RestUnchanged
       /\ \A v \in StatusFilters : SetStatusFilter(v) =>
             /\ store'.pagination.page = 1
             /\ store'.filters.status = v
             /\ FiltersExcept("status") /\ RestUnchanged
       /\ \A v \in Departments : SetDepartmentFilter(v) =>
             /\ store'.pagination.page = 1
             /\ store'.filters.department = v
             /\ FiltersExcept("department") /\ RestUnchanged
       /\ \A v \in Providers : SetProviderFilter(v) =>
             /\ store'.pagination.page = 1
             /\ store'.filters.provider = v
             /\ FiltersExcept("provider") /\ RestUnchanged
       /\ \A from \in Dates, to \in Dates : SetDateRange(from, to) =>
             /\ store'.pagination.page = 1
             /\ store'.filters.dateRange = [from |-> from, to |-> to]
             /\ FiltersExcept("dateRange") /\ RestUnchanged
       /\ ResetFilters =>
             /\ store'.pagination.page = 1
             /\ store'.filters = defaultFilters
             /\ RestUnchanged
       /\ \A v \in PageSizes : SetPageSize(v) =>
             /\ store'.pagination.page = 1
             /\ store'.pagination.pageSize = v
             /\ store'.filters = store.filters
             /\ RestUnchanged]_vars

\* a filter was set while a later page was shown and while preferences and
\* sort were off their defaults: the store is back on page 1 with them kept
C16_Witness ==
    /\ storeCalls.op = "setStatusFilter"
    /\ storeCalls.page > 1
    /\ store.pagination.page = 1
    /\ store.filters.status = "ACTIVE"
    /\ store.filters.search = "web"
    /\ store.pagination.pageSize # DefaultPageSize
    /\ store.preferences # defaultPreferences
    /\ store.sort.direction = "desc"

\* fn is invoked in the step
Invokes == debounced'.invoked = debounced.invoked + 1

\* a call is made in the step that starts a burst after an earlier one
StartsNextBurst ==
    /\ debounced'.calls = debounced.calls + 1
    /\ debounced.calls > 0
    /\ ~InBurst(debounced)

\* C17 as claimed: fn is never invoked before Delay has passed since the
\* latest call, and every burst of calls less than Delay apart results in
\* exactly one invocation, with the arguments of its last call.
C17_BurstInvokedOnce ==
    [][/\ Invokes =>
             /\ debounced.clock >= debounced.lastCallAt + Delay
             /\ debounced'.invokedArgs = debounced.lastArgs
             /\ debounced.invoked = 0
       /\ StartsNextBurst => debounced.invoked = 1]_vars

\* C17: fn is never invoked before Delay has passed since the latest call;
\* a burst of calls less than Delay apart results in at most one
\* invocation, with the arguments of its last call, and in exactly one
\* when the callback of its timeout has run by the time of the next call:
\* a call made while that callback is overdue cancels it, and the burst
\* ends without an invocation.
C17_TrailingInvocation ==
    [][/\ Invokes =>
             /\ debounced.clock >= debounced.lastCallAt + Delay
             /\ debounced'.invokedArgs = debounced.lastArgs
             /\ debounced.invoked = 0
       /\ StartsNextBurst =>
             /\ debounced.invoked = IF debounced.timers = {} THEN 1 ELSE 0
             /\ debounced.timers # {} =>
                   \A t \in debounced.timers : debounced.clock >= t.due]_vars

\* a burst of two calls with different arguments has been invoked once,
\* with the arguments of the second call, after an earlier burst
C17_Witness ==
    /\ debounced.burstLen = 2
    /\ debounced.calls = 3
    /\ debounced.invoked = 1
    /\ debounced.invokedArgs = "b"
    /\ debounced.lastArgs = "b"
    /\ debounced.timers = {}

\* the step delivers a message to the mounted hook
Delivers == socket'.lastMessage # socket.lastMessage

\* C18: messageHistory never holds more than maxHistory messages and is
\* ordered newest first; a message delivered is put at the head, the
\* messages held follow it in their order, and when the history was full
\* the oldest one, and only that one, is gone.
C18_BoundedHistory ==
    /\ [](/\ Len(socket.messageHistory) <= MaxHistory
          /\ \A i \in 1..Len(socket.messageHistory) - 1 :
                socket.messageHistory[i].seq > socket.messageHistory[i + 1].seq)
    /\ [][Delivers =>
            LET old == socket.messageHistory
                new == socket'.messageHistory
            IN  /\ new[1] = socket'.lastMessage
                /\ new[1].seq = socket'.generated
                /\ Len(new) = Min(Len(old) + 1, MaxHistory)
                /\ \A i \in 2..Len(new) : new[i] = old[i - 1]]_vars

\* the history is full and has evicted at least one message
C18_Witness ==
    /\ Len(socket.messageHistory) = MaxHistory
    /\ socket.generated > MaxHistory
    /\ socket.messageHistory[1].seq = socket.generated
    /\ socket.messageHistory[MaxHistory].seq > 1

\* C19: once the component has unmounted, no connection timeout and no
\* message interval of the hook instance is still set, and the instance
\* generates no further message.
C19_CleanupOnUnmount ==
    /\ [](socket.unmounted =>
             socket.timeouts = {} /\ socket.intervals = {})
    /\ [][socket.unmounted => socket'.generated = socket.generated]_vars

StatusPath ==
    {<<"disconnected", "connecting">>, <<"connecting", "connected">>,
     <<"connected", "disconnected">>}

\* C20: the status changes only along disconnected -> connecting ->
\* connected -> disconnected, so 'connected' is entered from 'connecting'
\* only; and from a call of disconnect() to the next call of connect() the
\* status stays 'disconnected' and no message is delivered.
C20_ConnectionStateMachine ==
    /\ [][socket'.status # socket.status =>
             <<socket.status, socket'.status>> \in StatusPath]_vars
    /\ [](socket.quiet /\ socket.mounted => socket.status = "disconnected")
    /\ [][socket.quiet /\ socket'.quiet /\ socket.mounted =>
             ~Delivers]_vars

\* the connection of the mounted hook has ended and no handshake is under
\* way: in the hook a connection ends by disconnect() only
ConnectionLost ==
    /\ socket.mounted
    /\ socket.quiet
    /\ socket.status = "disconnected"
    /\ socket.timeouts = {}

\* C21: when the connection is lost the hook reconnects on its own: while
\* the component stays mounted the status returns to 'connected', without
\* a call of connect() being needed for it.
C21_AutomaticReconnection ==
    [](ConnectionLost =>
          <>(socket.status = "connected" \/ ~socket.mounted))

AdminHandlers ==
    {"adminAccessRequestsIndex", "adminAccessRequestsApprove",
     "adminUsersIndex", "adminUsersRole"}

AllowedRoles(handler) ==
    IF handler = "adminUsersRole" THEN {"SUPERADMIN"}
    ELSE {"ADMIN", "SUPERADMIN"}

\* the step is an exchange with an admin handler
AdminExchange == http'.n = http.n + 1 /\ http'.handler \in AdminHandlers

\* the caller of the exchange presents a token that verifies, and the role
\* stored for it when the request arrives is one the handler allows
Authorized ==
    /\ http'.req.token.kind = "valid"
    /\ db.users[http'.req.token.sub] \in AllowedRoles(http'.handler)

\* C22 as claimed: the body of an admin handler runs only for an
\* authorized caller; for any other caller the response is 401 or 403,
\* it carries no admin data and the tables are left as they were.
C22_AdminAuthorization ==
    [][AdminExchange =>
          /\ http'.body => Authorized
          /\ ~Authorized =>
                /\ http'.status \in {401, 403}
                /\ http'.data = "error"
                /\ db' = db]_vars

\* C22: the body of an admin handler runs only for an authorized caller;
\* for any other caller the response is 401 or 403, or 429 when the rate
\* limiter refuses the request before the authorization, or 500 when the
\* user lookup throws; it carries no admin data, no access request and no
\* existing user row changes, and the one write that can happen is the
\* row with role USER that requireAuthRole creates for a verified identity
\* it has not seen before.
C22_AdminBodyOnlyWhenAuthorized ==
    [][AdminExchange =>
          /\ http'.body => Authorized
          /\ ~Authorized =>
                /\ ~http'.body
                /\ http'.status \in {401, 403, 429, 500}
                /\ http'.data = "error"
                /\ db'.accessRequests = db.accessRequests
                /\ \A c \in ClerkIds :
                      db'.users[c] # db.users[c] =>
                          /\ db.users[c] = "absent"
                          /\ db'.users[c] = "USER"
                          /\ http'.req.token = [kind |-> "valid", sub |-> c]
                          /\ http'.status = 403]_vars

\* an ADMIN was refused the role change with 403, after the body of an
\* admin handler had run for a caller and changed a table
C22_Witness ==
    /\ http.handler = "adminUsersRole"
    /\ http.req.token.kind = "valid"
    /\ db.users[http.req.token.sub] = "ADMIN"
    /\ http.status = 403
    /\ ~http.body
    /\ db # DbInit

\* the step is the exchange of POST /api/access-requests sent by an
\* identity that verifies and has a user row, with the rate limiter
\* letting it pass and the database up
SubmitsAccessRequest ==
    /\ http'.n = http.n + 1
    /\ http'.req.method = "POST"
    /\ http'.req.url = "/api/access-requests"
    /\ http'.req.token.kind = "valid"
    /\ db.users[http'.req.token.sub] \in Roles
    /\ ~http'.req.limited /\ ~http'.req.dbDown

\* C23: an authenticated user with role USER, ADMIN or SUPERADMIN who
\* sends POST /api/access-requests through the router gets 200, and one
\* access request, PENDING and owned by that user, is added to the table.
C23_AccessRequestSubmission ==
    [][SubmitsAccessRequest =>
          /\ http'.status = 200
          /\ Len(db'.accessRequests) = Len(db.accessRequests) + 1
          /\ SubSeq(db'.accessRequests, 1, Len(db.accessRequests)) =
                db.accessRequests
          /\ LET new == db'.accessRequests[Len(db'.accessRequests)]
             IN  /\ new.userId = http'.req.token.sub
                 /\ new.status = "PENDING"]_vars

\* C24: the nextCursor returned with a page is the id of the last row the
\* page contains, and the page loaded with that cursor starts at the row
\* that follows it in ascending id order.
C24_CursorIdentity ==
    \A i \in 1..Len(inf.pages) :
        LET page == inf.pages[i]
        IN  page.nextCursor # Null =>
                /\ Len(page.data) > 0
                /\ page.nextCursor = page.data[Len(page.data)].id
                /\ (i < Len(inf.pages) /\ Len(inf.pages[i + 1].data) > 0) =>
                      inf.pages[i + 1].data[1].id = page.nextCursor + 1

\* the optimistic change of the mutation mu is in items: the row shows the
\* requested status, or the temporary row is there
Optimistic(items, mu) ==
    \E i \in 1..Len(items) :
        /\ items[i].id = mu.resourceId
        /\ mu.kind = "status" => items[i].status = mu.status

\* C25: when two mutations in flight at the same time both fail, then once
\* the second rollback has run, in either order, every list entry that
\* existed holds what it held before the first mutation started; and
\* while one of them is pending, the rollback of the other does not take
\* the pending one's optimistic change out of a list entry.
C25_OverlappingRollbacks ==
    [][\A k \in Mutations : \A j \in Mutations \ {k} :
          SettlesFailed(k) =>
              /\ muts[j].pc = "error" =>
                    \A f \in Filters :
                        (before[f].present /\ before[f].defined) =>
                            /\ lists'[f].defined
                            /\ lists'[f].items = before[f].items
              /\ muts[j].pc = "pending" =>
                    \A f \in Filters :
                        (lists[f].defined /\ Optimistic(lists[f].items,
                                                        muts[j])) =>
                            Optimistic(lists'[f].items, muts[j])]_vars

\* a fetch of the list entry f ends in this step by writing its result
RefetchResult(f) ==
    /\ IsFetching(lists[f])
    /\ ~IsFetching(lists'[f])
    /\ muts' = muts
    /\ lists'[f].items # lists[f].items

====
